---- MODULE Spec2Model ----
(***************************************************************************)
(* The first pass of the formatter's isMultiline classification            *)
(* (packages/format/src/format/passes/isMultiline/isMultilineFirstPass.ts).*)
(* A depth-first traversal visits every node of an Ast after its children  *)
(* and commits one boolean per node to state.result.                       *)
(***************************************************************************)
EXTENDS Integers, Sequences, FiniteSets, TLC

VARIABLES
    ast,                   \* Request.ast: the tree being classified
    commentCollectionMap,  \* State.commentCollectionMap (input, read only)
    parentMap,             \* State.parentMap (input, read only)
    linearLengthMap,       \* State.linearLengthMap: cache of getLinearLength
    result,                \* State.result: the IsMultilineMap being built
    visitOrder,            \* the nodes in the order the traversal visits them
    cursor,                \* position of the traversal in visitOrder
    status,                \* "running", "returned" or "thrown"
    fault,                 \* details of the InvariantError thrown, if any
    setCount               \* history: number of setIsMultiline calls per node

vars == <<ast, commentCollectionMap, parentMap, linearLengthMap, result,
          visitOrder, cursor, status, fault, setCount>>

----------------------------------------------------------------------------
(* Program constants.                                                      *)

TBinOpExpressionLinearLengthThreshold == 30
TBinOpExpressionExpressionNumberThreshold == 3
InvokeExpressionLinearLengthThreshold == 30

InvokeExpressionIdentifierLinearLengthExclusions ==
    { <<"#", "d", "a", "t", "e", "t", "i", "m", "e">>,
      <<"#", "d", "a", "t", "e", "t", "i", "m", "e", "z", "o", "n", "e">>,
      <<"#", "d", "u", "r", "a", "t", "i", "o", "n">>,
      <<"#", "t", "i", "m", "e">> }

----------------------------------------------------------------------------
(* Bounds of the model.                                                    *)

MaxLiteralLength == 2   \* code units of a literal's text
MaxContent == 2         \* content items of a list or record
MaxArguments == 2       \* arguments of an invocation
MaxRest == 3            \* operands after the first of a binary chain
MaxFields == 2          \* fields of a field specification list

----------------------------------------------------------------------------
(* Ast nodes.  A node is a record: its kind, the scalar data of a literal  *)
(* or identifier (literalKind, literal: a sequence of code units), and its *)
(* children in token order, kids[i] being the child held by the field      *)
(* named roles[i].  An absent optional child has no position.  A node is   *)
(* identified by its token range, here its path from the root.             *)

MkNode(kind, roles, kids) ==
    [kind |-> kind, literalKind |-> "None", literal |-> <<>>,
     roles |-> roles, kids |-> kids]

MkLeaf(kind, literalKind, literal) ==
    [kind |-> kind, literalKind |-> literalKind, literal |-> literal,
     roles |-> <<>>, kids |-> <<>>]

Constant == MkLeaf("Constant", "None", <<>>)

RECURSIVE NodeAt(_, _)
NodeAt(root, path) ==
    IF path = <<>> THEN root ELSE NodeAt(root.kids[Head(path)], Tail(path))

RECURSIVE PathsOf(_, _)
PathsOf(node, path) ==
    {path} \cup UNION { PathsOf(node.kids[i], Append(path, i)) :
                        i \in 1..Len(node.kids) }

Nodes == PathsOf(ast, <<>>)

Node(p) == NodeAt(ast, p)

Kind(p) == Node(p).kind

\* The children of p held by the field named role, in order.
Field(p, role) ==
    LET n == Node(p)
        ix == SelectSeq([i \in 1..Len(n.roles) |-> i],
                        LAMBDA i : n.roles[i] = role)
    IN  [j \in 1..Len(ix) |-> Append(p, ix[j])]

Children(p) == { Append(p, i) : i \in 1..Len(Node(p).kids) }

IsProperDescendant(q, p) ==
    /\ Len(q) > Len(p)
    /\ SubSeq(q, 1, Len(p)) = p

\* Variant: Traverse.VisitNodeStrategy.BreadthFirst, the node, then its
\* children in order.
RECURSIVE BreadthFirst(_, _)
BreadthFirst(node, path) ==
    LET below[i \in 0..Len(node.kids)] ==
            IF i = 0 THEN <<path>>
            ELSE below[i - 1] \o BreadthFirst(node.kids[i], Append(path, i))
    IN  below[Len(node.kids)]

\* Traverse.VisitNodeStrategy.DepthFirst: the children in order, then the node.
RECURSIVE DepthFirst(_, _)
DepthFirst(node, path) ==
    LET below[i \in 0..Len(node.kids)] ==
            IF i = 0 THEN <<>>
            ELSE below[i - 1] \o DepthFirst(node.kids[i], Append(path, i))
    IN  Append(below[Len(node.kids)], path)

----------------------------------------------------------------------------
(* The collaborators of the pass.                                          *)

\* StringHelpers.containsNewline: some code unit of str starts a line break.
containsNewline(str) == \E i \in 1..Len(str) : str[i] \in {"\n", "\r"}

\* getIsMultiline (./common): the flag recorded for node q.  The pass only
\* asks for nodes that have an entry (C2_WrittenOnceAfterChildren below).
getIsMultiline(q, isMultilineMap) ==
    IF q \in DOMAIN isMultilineMap THEN isMultilineMap[q] ELSE FALSE

\* setIsMultiline (./common): isMultilineMap with q's entry set.
setIsMultiline(q, isMultilineMap, isMultiline) ==
    [x \in DOMAIN isMultilineMap \cup {q} |->
        IF x = q THEN isMultiline ELSE isMultilineMap[x]]

\* getLinearLength (./linearLength): the cached length of q, else the length
\* the provider computes now (measured), which it then caches.
getLinearLength(q, lengthMap, measured) ==
    IF q \in DOMAIN lengthMap THEN lengthMap[q] ELSE measured

cacheLinearLength(q, lengthMap, measured) ==
    [x \in DOMAIN lengthMap \cup {q} |->
        IF x \in DOMAIN lengthMap THEN lengthMap[x] ELSE measured]

\* maybeGetParent (../parent): the parent recorded for q, as a sequence of
\* zero or one node.
maybeGetParent(q, parents) ==
    IF q \in DOMAIN parents THEN <<parents[q]>> ELSE <<>>

----------------------------------------------------------------------------
(* The helpers of visitNode.                                               *)

TPairedConstantKinds ==
    {"AsNullablePrimitiveType", "AsType", "EachExpression",
     "ErrorRaisingExpression", "NullablePrimitiveType", "NullableType",
     "OtherwiseExpression", "TypePrimaryType"}

TBinOpExpressionKinds ==
    {"ArithmeticExpression", "EqualityExpression", "LogicalExpression",
     "RelationalExpression"}

TBinOpKeywordKinds == {"IsExpression", "AsExpression", "MetadataExpression"}

TKeyValuePairKinds ==
    {"GeneralizedIdentifierPairedAnyLiteral",
     "GeneralizedIdentifierPairedExpression",
     "IdentifierExpressionPairedExpression", "IdentifierPairedExpression"}

ListOrRecordKinds ==
    {"ListExpression", "ListLiteral", "RecordExpression", "RecordLiteral"}

NoOpKinds ==
    {"Constant", "FunctionType", "GeneralizedIdentifier", "Identifier",
     "NotImplementedExpression", "Parameter", "ParameterList"}

\* Variant: the literal kinds are left out.
isAnyListOrRecordExpression(nodes) ==
    \E i \in 1..Len(nodes) :
        Kind(nodes[i]) \in {"ListExpression", "RecordExpression"}

isAnyListOrRecord(nodes) ==
    \E i \in 1..Len(nodes) : Kind(nodes[i]) \in ListOrRecordKinds

\* Variant: the loop returns after its first node.
isFirstMultiline(isMultilineMap, maybeNodes) ==
    /\ Len(maybeNodes) > 0
    /\ getIsMultiline(maybeNodes[1], isMultilineMap)

isAnyMultiline(isMultilineMap, maybeNodes) ==
    \E i \in 1..Len(maybeNodes) : getIsMultiline(maybeNodes[i], isMultilineMap)

\* The operand (.node) of each helper of unaryExpressions.
HelperNodes(unaryExpressions) ==
    [i \in 1..Len(unaryExpressions) |-> Field(unaryExpressions[i], "node")[1]]

isAnyMultilineUnaryHelper(isMultilineMap, unaryExpressions, nodes) ==
    isAnyMultiline(isMultilineMap, nodes \o HelperNodes(unaryExpressions))

precededByMultilineComment(q, comments) ==
    IF q \in DOMAIN comments
    THEN comments[q].prefixedCommentsContainsNewline
    ELSE FALSE

\* Variant: the flag is recorded inside the comment check only.
setIsMultilineInsideCommentCheck(q, comments, isMultilineMap, isMultiline) ==
    IF precededByMultilineComment(q, comments)
    THEN setIsMultiline(q, isMultilineMap, TRUE)
    ELSE isMultilineMap

\* Variant: the comment check is skipped.
setIsMultilineWithoutCommentCheck(q, comments, isMultilineMap, isMultiline) ==
    setIsMultiline(q, isMultilineMap, isMultiline)

setIsMultilineWithCommentCheck(q, comments, isMultilineMap, isMultiline) ==
    setIsMultiline(q, isMultilineMap,
                   IF precededByMultilineComment(q, comments)
                   THEN TRUE ELSE isMultiline)

\* The parent of an InvokeExpression is missing or of the wrong kind.
InvokeParentIsInvalid(q, parents) ==
    LET maybeParent == maybeGetParent(q, parents)
    IN  IF maybeParent = <<>> THEN TRUE
        ELSE Kind(maybeParent[1]) # "RecursivePrimaryExpression"

\* maybeGetInvokeExpressionIdentifier: the IdentifierExpression heading the
\* call, as a sequence of zero or one node.  Called with a valid parent.
maybeGetInvokeExpressionIdentifier(q, parents) ==
    LET maybeRecursivePrimaryExpression == maybeGetParent(q, parents)[1]
        recursiveExpressions ==
            Field(maybeRecursivePrimaryExpression, "recursiveExpressions")
        head == Field(maybeRecursivePrimaryExpression, "head")[1]
    IN  IF Len(recursiveExpressions) # 1 THEN <<>>
        ELSE IF Kind(head) # "IdentifierExpression" THEN <<>>
        ELSE <<head>>

\* numTBinOpExpressions: node.rest holds UnaryExpressionHelper nodes, and
\* the recursion is applied to those helpers themselves.
RECURSIVE numTBinOpExpressions(_)
numTBinOpExpressions(q) ==
    IF Kind(q) \in TBinOpExpressionKinds
    THEN LET rest == Field(q, "rest")
             sum[i \in 0..Len(rest)] ==
                 IF i = 0 THEN numTBinOpExpressions(Field(q, "first")[1])
                 ELSE sum[i - 1] + numTBinOpExpressions(rest[i])
         IN  sum[Len(rest)]
    ELSE 1

----------------------------------------------------------------------------
(* visitNode: the flag each case of the switch derives for node q, from    *)
(* the flags already in isMultilineMap (state.result).  measured and       *)
(* headMeasured are the lengths the linear length provider computes for q  *)
(* and for the head of q's parent when they are not cached yet.            *)

isMultilineOfTBinOpExpression(q, isMultilineMap, lengthMap, measured) ==
    LET numExpressions == numTBinOpExpressions(q)
    IN  IF numExpressions > TBinOpExpressionExpressionNumberThreshold
        THEN TRUE
        ELSE LET linearLength == getLinearLength(q, lengthMap, measured)
             IN  IF linearLength > TBinOpExpressionLinearLengthThreshold
                 THEN TRUE
                 ELSE isAnyMultilineUnaryHelper(isMultilineMap,
                          Field(q, "rest"), Field(q, "first"))

isMultilineOfListOrRecord(q, isMultilineMap) ==
    IF Len(Field(q, "content")) > 1
    THEN TRUE
    ELSE LET isAnyChildMultiline ==
                 isAnyMultiline(isMultilineMap,
                     Field(q, "openWrapperConstant")
                     \o Field(q, "closeWrapperConstant")
                     \o Field(q, "content"))
         IN  IF isAnyChildMultiline
             THEN TRUE
             ELSE LET csvs == Field(q, "content")
                      csvNodes == [i \in 1..Len(csvs) |->
                                      Field(csvs[i], "node")[1]]
                  IN  isAnyListOrRecord(csvNodes)

\* Variant: one field is enough, with or without the marker.
isMultilineOfAnyFieldSpecificationList(q) ==
    Len(Field(q, "content")) >= 1

isMultilineOfFieldSpecificationList(q) ==
    LET fields == Field(q, "content")
    IN  IF Len(fields) > 1 THEN TRUE
        ELSE IF Len(fields) = 1
                /\ Field(q, "maybeOpenRecordMarkerConstant") # <<>>
        THEN TRUE
        ELSE FALSE

isMultilineOfInvokeExpression(q, isMultilineMap, parents, lengthMap, measured, headMeasured) ==
    LET args == Field(q, "content")
    IN  IF Len(args) > 1
        THEN LET linearLength == getLinearLength(q, lengthMap, measured)
                 maybeParent == maybeGetParent(q, parents)[1]
                 headLinearLength ==
                     getLinearLength(Field(maybeParent, "head")[1],
                         cacheLinearLength(q, lengthMap, measured),
                         headMeasured)
                 compositeLinearLength == linearLength + headLinearLength
             IN  IF compositeLinearLength > InvokeExpressionLinearLengthThreshold
                 THEN LET maybeInvokeExpressionIdentifier ==
                              maybeGetInvokeExpressionIdentifier(q, parents)
                      IN  IF maybeInvokeExpressionIdentifier # <<>>
                          THEN LET identifierExpression ==
                                       maybeInvokeExpressionIdentifier[1]
                               IN  IF Field(identifierExpression,
                                            "maybeInclusiveConstant") # <<>>
                                   THEN TRUE
                                   ELSE LET identifierLiteral ==
                                                Node(Field(identifierExpression,
                                                     "identifier")[1]).literal
                                        IN  identifierLiteral \notin
                                            InvokeExpressionIdentifierLinearLengthExclusions
                          ELSE FALSE
                 ELSE isAnyMultiline(isMultilineMap,
                          Field(q, "openWrapperConstant")
                          \o Field(q, "closeWrapperConstant")
                          \o args)
        ELSE isAnyMultiline(isMultilineMap,
                 Field(q, "openWrapperConstant")
                 \o Field(q, "closeWrapperConstant")
                 \o args)

\* Variant: a literal is handled as the no-op nodes are.
isMultilineOfLiteralExpressionAsNoOp(q) == FALSE

isMultilineOfLiteralExpression(q) ==
    IF Node(q).literalKind = "Str" /\ containsNewline(Node(q).literal)
    THEN TRUE
    ELSE FALSE

isMultilineOfSection(q, isMultilineMap) ==
    IF Len(Field(q, "sectionMembers")) # 0
    THEN TRUE
    ELSE isAnyMultiline(isMultilineMap,
             Field(q, "maybeLiteralAttributes") \o Field(q, "sectionConstant")
             \o Field(q, "maybeName") \o Field(q, "semicolonConstant")
             \o Field(q, "sectionMembers"))

\* The switch of visitNode.
isMultilineOf(q, isMultilineMap, parents, lengthMap, measured, headMeasured) ==
    LET kind == Kind(q)
        any(fields) ==
            isAnyMultiline(isMultilineMap,
                LET cat[i \in 0..Len(fields)] ==
                        IF i = 0 THEN <<>>
                        ELSE cat[i - 1] \o Field(q, fields[i])
                IN  cat[Len(fields)])
    IN  CASE kind \in TPairedConstantKinds -> any(<<"constant", "paired">>)
          [] kind \in TBinOpExpressionKinds ->
                isMultilineOfTBinOpExpression(q, isMultilineMap, lengthMap,
                                              measured)
          [] kind \in TBinOpKeywordKinds ->
                any(<<"left", "constant", "right">>)
          [] kind \in TKeyValuePairKinds ->
                any(<<"key", "equalConstant", "value">>)
          [] kind \in ListOrRecordKinds ->
                isMultilineOfListOrRecord(q, isMultilineMap)
          [] kind = "Csv" -> any(<<"node", "maybeCommaConstant">>)
          [] kind = "ErrorHandlingExpression" ->
                any(<<"tryConstant", "protectedExpression",
                      "maybeOtherwiseExpression">>)
          [] kind = "FieldProjection" ->
                any(<<"openWrapperConstant", "closeWrapperConstant",
                      "maybeOptionalConstant", "content">>)
          [] kind = "FieldSelector" ->
                any(<<"openWrapperConstant", "content",
                      "closeWrapperConstant", "maybeOptionalConstant">>)
          [] kind = "FieldSpecification" ->
                any(<<"maybeOptionalConstant", "name",
                      "maybeFieldTypeSpeification">>)
          [] kind = "FieldSpecificationList" ->
                isMultilineOfFieldSpecificationList(q)
          [] kind = "FieldTypeSpecification" ->
                any(<<"equalConstant", "fieldType">>)
          [] kind = "FunctionExpression" ->
                getIsMultiline(Field(q, "expression")[1], isMultilineMap)
          [] kind = "IdentifierExpression" ->
                any(<<"maybeInclusiveConstant", "identifier">>)
          [] kind = "IfExpression" -> TRUE
          [] kind = "InvokeExpression" ->
                isMultilineOfInvokeExpression(q, isMultilineMap, parents,
                    lengthMap, measured, headMeasured)
          [] kind = "ItemAccessExpression" ->
                any(<<"maybeOptionalConstant", "content",
                      "closeWrapperConstant", "maybeOptionalConstant">>)
          [] kind = "LetExpression" -> TRUE
          [] kind = "LiteralExpression" -> isMultilineOfLiteralExpression(q)
          [] kind = "ListType" ->
                any(<<"openWrapperConstant", "content",
                      "closeWrapperConstant">>)
          [] kind = "ParenthesizedExpression" ->
                any(<<"openWrapperConstant", "content",
                      "closeWrapperConstant">>)
          [] kind = "PrimitiveType" ->
                getIsMultiline(Field(q, "primitiveType")[1], isMultilineMap)
          [] kind = "RecordType" ->
                getIsMultiline(Field(q, "fields")[1], isMultilineMap)
          [] kind = "RecursivePrimaryExpression" ->
                any(<<"head", "recursiveExpressions">>)
          [] kind = "Section" -> isMultilineOfSection(q, isMultilineMap)
          [] kind = "SectionMember" ->
                any(<<"maybeLiteralAttributes", "maybeSharedConstant",
                      "namePairedExpression", "semicolonConstant">>)
          [] kind = "TableType" -> any(<<"tableConstant", "rowType">>)
          [] kind = "UnaryExpression" ->
                isAnyMultilineUnaryHelper(isMultilineMap,
                    Field(q, "expressions"), <<>>)
          [] kind = "UnaryExpressionHelper" ->
                any(<<"operatorConstant", "node">>)
          [] kind \in NoOpKinds -> FALSE

\* Variant: the details name no parent.
InvariantErrorDetailsWithoutParent(q, parents) ==
    [node |-> <<q>>, maybeParent |-> <<>>, raised |-> TRUE]

\* The details of the InvariantError: the node and the parent found.
InvariantErrorDetails(q, parents) ==
    [node |-> <<q>>, maybeParent |-> maybeGetParent(q, parents),
     raised |-> TRUE]

\* The throw of visitNode: an InvokeExpression with several arguments whose
\* parent is missing or is no RecursivePrimaryExpression.
visitNodeThrows(q, parents) ==
    /\ Kind(q) = "InvokeExpression"
    /\ Len(Field(q, "content")) > 1
    /\ InvokeParentIsInvalid(q, parents)

\* The visit of q asks the provider for q's length, and for the length of
\* the head of q's parent.
measuresNode(q) ==
    \/ /\ Kind(q) \in TBinOpExpressionKinds
       /\ numTBinOpExpressions(q) <= TBinOpExpressionExpressionNumberThreshold
    \/ /\ Kind(q) = "InvokeExpression"
       /\ Len(Field(q, "content")) > 1

measuresHead(q, parents) ==
    /\ Kind(q) = "InvokeExpression"
    /\ Len(Field(q, "content")) > 1
    /\ ~InvokeParentIsInvalid(q, parents)

\* state.linearLengthMap after the visit of q.
linearLengthMapAfter(q, parents, lengthMap, measured, headMeasured) ==
    IF measuresHead(q, parents)
    THEN cacheLinearLength(Field(maybeGetParent(q, parents)[1], "head")[1],
             cacheLinearLength(q, lengthMap, measured), headMeasured)
    ELSE IF measuresNode(q)
    THEN cacheLinearLength(q, lengthMap, measured)
    ELSE lengthMap

----------------------------------------------------------------------------
(* The trees the pass is run on.                                           *)

SeqsOver(S, lo, hi) == UNION { [1..k -> S] : k \in lo..hi }

\* roles for a wrapped sequence: open, k content items, close.
Wrapped(kind, items) ==
    MkNode(kind,
           <<"openWrapperConstant">>
           \o [i \in 1..Len(items) |-> "content"]
           \o <<"closeWrapperConstant">>,
           <<Constant>> \o items \o <<Constant>>)

\* Csv nodes for elements: every item but the last carries a comma.
Csvs(elements) ==
    [i \in 1..Len(elements) |->
        IF i < Len(elements)
        THEN MkNode("Csv", <<"node", "maybeCommaConstant">>,
                    <<elements[i], Constant>>)
        ELSE MkNode("Csv", <<"node">>, <<elements[i]>>)]

LiteralExpression(literalKind, literal) ==
    MkLeaf("LiteralExpression", literalKind, literal)

LitOne == LiteralExpression("Numeric", <<"1">>)
LitBreak == LiteralExpression("Str", <<"a", "\n">>)

TextUnits == {"a", "\n", "\r"}

LiteralTrees ==
    { LiteralExpression("Str", t) : t \in SeqsOver(TextUnits, 0, MaxLiteralLength) }
    \cup { LiteralExpression("Numeric", t) : t \in SeqsOver({"1"}, 1, MaxLiteralLength) }

IfExpression ==
    MkNode("IfExpression",
           <<"ifConstant", "condition", "thenConstant", "trueExpression",
             "elseConstant", "falseExpression">>,
           <<Constant, LitOne, Constant, LitOne, Constant, LitOne>>)

\* Lists hold expressions or literals; records hold key-value pairs.
IsLiteralFamily(kind) == kind \in {"ListLiteral", "RecordLiteral"}

KeyValuePair(kind, value) ==
    MkNode(IF IsLiteralFamily(kind)
           THEN "GeneralizedIdentifierPairedAnyLiteral"
           ELSE "GeneralizedIdentifierPairedExpression",
           <<"key", "equalConstant", "value">>,
           <<MkLeaf("GeneralizedIdentifier", "None", <<"k">>), Constant, value>>)

ListOrRecord(kind, values) ==
    Wrapped(kind,
        Csvs(IF kind \in {"RecordExpression", "RecordLiteral"}
             THEN [i \in 1..Len(values) |-> KeyValuePair(kind, values[i])]
             ELSE values))

\* A list holds its values directly, a record wraps each in a pair.
ListOrRecordValues(kind) ==
    {LitOne, LitBreak}
    \cup { ListOrRecord(k, <<>>) :
           k \in { x \in ListOrRecordKinds :
                   /\ IsLiteralFamily(x) = IsLiteralFamily(kind)
                   /\ kind \in {"RecordExpression", "RecordLiteral"}
                      => x \in {"ListExpression", "ListLiteral"} } }

ListOrRecordTrees ==
    UNION { { ListOrRecord(kind, values) :
              values \in SeqsOver(ListOrRecordValues(kind), 0, MaxContent) } :
            kind \in ListOrRecordKinds }

\* Invocations: head(args), head(args){1}.
IdentifierExpression(inclusive, literal) ==
    MkNode("IdentifierExpression",
           IF inclusive THEN <<"maybeInclusiveConstant", "identifier">>
           ELSE <<"identifier">>,
           IF inclusive THEN <<Constant, MkLeaf("Identifier", "None", literal)>>
           ELSE <<MkLeaf("Identifier", "None", literal)>>)

RecursivePrimaryExpression(head, recursiveExpressions) ==
    MkNode("RecursivePrimaryExpression",
           <<"head">> \o [i \in 1..Len(recursiveExpressions) |->
                             "recursiveExpressions"],
           <<head>> \o recursiveExpressions)

InvokeExpression(args) == Wrapped("InvokeExpression", Csvs(args))

ItemAccessExpression == Wrapped("ItemAccessExpression", <<LitOne>>)

ParenthesizedExpression(content) ==
    Wrapped("ParenthesizedExpression", <<content>>)

Foo == <<"f", "o", "o">>
Time == <<"#", "t", "i", "m", "e">>

InvokeHeads ==
    { IdentifierExpression(FALSE, l) :
      l \in {Foo} \cup InvokeExpressionIdentifierLinearLengthExclusions }
    \cup { IdentifierExpression(TRUE, l) : l \in {Foo, Time} }
    \cup { ParenthesizedExpression(LitOne) }

InvokeArguments ==
    SeqsOver({LitOne, LitBreak}, 0, MaxArguments) \cup { <<IfExpression>> }

InvokeTrees ==
    { RecursivePrimaryExpression(head, <<InvokeExpression(args)>> \o more) :
      head \in InvokeHeads, args \in InvokeArguments,
      more \in { <<>>, <<ItemAccessExpression>> } }

\* Binary chains: first op node op node ..., where first and at most one
\* later operand may themselves be a chain of two operands.
UnaryExpressionHelper(node) ==
    MkNode("UnaryExpressionHelper", <<"operatorConstant", "node">>,
           <<Constant, node>>)

TBinOpExpression(kind, first, operands) ==
    MkNode(kind,
           <<"first">> \o [i \in 1..Len(operands) |-> "rest"],
           <<first>> \o [i \in 1..Len(operands) |->
                            UnaryExpressionHelper(operands[i])])

\* The kind of chain the grammar allows as an operand of a chain of kind.
OperandChainKind(kind) ==
    CASE kind = "LogicalExpression" -> "EqualityExpression"
      [] kind = "EqualityExpression" -> "RelationalExpression"
      [] kind = "RelationalExpression" -> "ArithmeticExpression"
      [] kind = "ArithmeticExpression" -> "ArithmeticExpression"

OperandChain(kind) == TBinOpExpression(OperandChainKind(kind), LitOne, <<LitOne>>)

TBinOpExpressionTrees ==
    UNION { { TBinOpExpression(kind, first,
                  [i \in 1..r |->
                      IF i = j THEN OperandChain(kind) ELSE LitOne]) :
              first \in {LitOne, OperandChain(kind)},
              r \in 1..MaxRest, j \in 0..MaxRest } :
            kind \in TBinOpExpressionKinds }

\* Record types: [ name, name = type, ... ].
FieldSpecification(typed) ==
    IF typed
    THEN MkNode("FieldSpecification", <<"name", "maybeFieldTypeSpeification">>,
             <<MkLeaf("GeneralizedIdentifier", "None", <<"k">>),
               MkNode("FieldTypeSpecification", <<"equalConstant", "fieldType">>,
                   <<Constant,
                     MkNode("PrimitiveType", <<"primitiveType">>, <<Constant>>)>>)>>)
    ELSE MkNode("FieldSpecification", <<"name">>,
             <<MkLeaf("GeneralizedIdentifier", "None", <<"k">>)>>)

FieldSpecificationList(fields, open) ==
    MkNode("FieldSpecificationList",
           <<"openWrapperConstant">>
           \o [i \in 1..Len(fields) |-> "content"]
           \o (IF open THEN <<"maybeOpenRecordMarkerConstant">> ELSE <<>>)
           \o <<"closeWrapperConstant">>,
           <<Constant>> \o Csvs(fields)
           \o (IF open THEN <<Constant>> ELSE <<>>) \o <<Constant>>)

RecordTypeTrees ==
    { MkNode("RecordType", <<"fields">>,
          <<FieldSpecificationList(
                [i \in 1..Len(typed) |-> FieldSpecification(typed[i])], open)>>) :
      typed \in SeqsOver(BOOLEAN, 0, MaxFields), open \in BOOLEAN }

\* One small tree or two of every other kind, around a value that is
\* single-line (LitOne) or multiline (LitBreak).
Values == {LitOne, LitBreak}

GeneralizedIdentifier == MkLeaf("GeneralizedIdentifier", "None", <<"k">>)

Identifier == MkLeaf("Identifier", "None", <<"k">>)

PrimitiveType == MkNode("PrimitiveType", <<"primitiveType">>, <<Constant>>)

FieldSelector(optional) ==
    MkNode("FieldSelector",
           <<"openWrapperConstant", "content", "closeWrapperConstant">>
           \o (IF optional THEN <<"maybeOptionalConstant">> ELSE <<>>),
           <<Constant, GeneralizedIdentifier, Constant>>
           \o (IF optional THEN <<Constant>> ELSE <<>>))

FieldProjection(optional) ==
    MkNode("FieldProjection",
           <<"openWrapperConstant", "content", "closeWrapperConstant">>
           \o (IF optional THEN <<"maybeOptionalConstant">> ELSE <<>>),
           <<Constant, MkNode("Csv", <<"node">>, <<FieldSelector(FALSE)>>),
             Constant>>
           \o (IF optional THEN <<Constant>> ELSE <<>>))

IdentifierPairedExpression(value) ==
    MkNode("IdentifierPairedExpression", <<"key", "equalConstant", "value">>,
           <<Identifier, Constant, value>>)

SectionMember(value) ==
    MkNode("SectionMember",
           <<"maybeSharedConstant", "namePairedExpression", "semicolonConstant">>,
           <<Constant, IdentifierPairedExpression(value), Constant>>)

ParameterList ==
    Wrapped("ParameterList",
        Csvs(<<MkNode("Parameter", <<"name">>, <<Identifier>>)>>))

OtherTrees ==
    { MkNode(kind, <<"constant", "paired">>, <<Constant, v>>) :
      kind \in TPairedConstantKinds, v \in Values }
    \cup { MkNode(kind, <<"left", "constant", "right">>, <<v, Constant, LitOne>>) :
           kind \in TBinOpKeywordKinds, v \in Values }
    \cup { IdentifierPairedExpression(v) : v \in Values }
    \cup { MkNode("IdentifierExpressionPairedExpression",
               <<"key", "equalConstant", "value">>,
               <<IdentifierExpression(FALSE, Foo), Constant, v>>) : v \in Values }
    \cup { MkNode("ErrorHandlingExpression",
               <<"tryConstant", "protectedExpression">>, <<Constant, v>>) :
           v \in Values }
    \cup { MkNode("ErrorHandlingExpression",
               <<"tryConstant", "protectedExpression",
                 "maybeOtherwiseExpression">>,
               <<Constant, LitOne,
                 MkNode("OtherwiseExpression", <<"constant", "paired">>,
                        <<Constant, v>>)>>) : v \in Values }
    \cup { RecursivePrimaryExpression(IdentifierExpression(FALSE, Foo), <<access>>) :
           access \in { FieldSelector(o) : o \in BOOLEAN }
                      \cup { FieldProjection(o) : o \in BOOLEAN } }
    \cup { MkNode("FunctionExpression",
               <<"parameters", "fatArrowConstant", "expression">>,
               <<ParameterList, Constant, v>>) : v \in Values }
    \cup { MkNode("LetExpression",
               <<"letConstant", "variableList", "inConstant", "expression">>,
               <<Constant,
                 MkNode("Csv", <<"node">>, <<IdentifierPairedExpression(LitOne)>>),
                 Constant, v>>) : v \in Values }
    \cup { IfExpression,
           Wrapped("ListType", <<PrimitiveType>>),
           MkNode("TableType", <<"tableConstant", "rowType">>,
                  <<Constant, PrimitiveType>>),
           MkNode("FunctionType", <<>>, <<>>),
           MkNode("NotImplementedExpression", <<>>, <<>>) }
    \cup { ParenthesizedExpression(v) : v \in Values }
    \cup { MkNode("Section",
               <<"sectionConstant", "maybeName", "semicolonConstant">>
               \o [i \in 1..Len(members) |-> "sectionMembers"],
               <<Constant, Identifier, Constant>> \o members) :
           members \in { <<>>, <<SectionMember(LitOne)>> } }
    \cup { SectionMember(v) : v \in Values }
    \cup { MkNode("UnaryExpression", <<"expressions">>,
               <<UnaryExpressionHelper(v)>>) : v \in Values }

Trees ==
    LiteralTrees \cup ListOrRecordTrees \cup InvokeTrees
    \cup TBinOpExpressionTrees \cup RecordTypeTrees \cup OtherTrees

\* The parent index built from the tree.
ParentsOf(root) ==
    [q \in PathsOf(root, <<>>) \ {<<>>} |-> SubSeq(q, 1, Len(q) - 1)]

\* The comment index of a run holds no entry, or one entry: comments with a
\* line break before one node, or comments without one before the root.
CommentCollectionMaps(root) ==
    { [q \in {} |-> [prefixedCommentsContainsNewline |-> FALSE]],
      [q \in {<<>>} |-> [prefixedCommentsContainsNewline |-> FALSE]] }
    \cup { [q \in {c} |-> [prefixedCommentsContainsNewline |-> TRUE]] :
           c \in PathsOf(root, <<>>) }

\* The parent index of a run is the one built from the tree, or that index
\* with the entry of one InvokeExpression missing or naming a Constant.
ParentMaps(root) ==
    LET parents == ParentsOf(root)
        invokes == { q \in DOMAIN parents :
                     NodeAt(root, q).kind = "InvokeExpression" }
    IN  {parents}
        \cup { [q \in DOMAIN parents \ {i} |-> parents[q]] : i \in invokes }
        \cup { [parents EXCEPT ![i] = Append(i, 1)] : i \in invokes }

\* Lengths the linear length provider reports for a node of kind: for a
\* binary chain the threshold and the next value, for the two lengths added
\* for an invocation half the threshold and the next value.
LinearLengths(kind) ==
    IF kind \in TBinOpExpressionKinds
    THEN { TBinOpExpressionLinearLengthThreshold,
           TBinOpExpressionLinearLengthThreshold + 1 }
    ELSE { InvokeExpressionLinearLengthThreshold \div 2,
           InvokeExpressionLinearLengthThreshold \div 2 + 1 }

\* What the provider may report when it is asked, one value when it is not.
Measurements(asked, kind) == IF asked THEN LinearLengths(kind) ELSE {0}

NoFault == [node |-> <<>>, maybeParent |-> <<>>, raised |-> FALSE]

----------------------------------------------------------------------------
(* The pass.                                                               *)

\* createTraversalRequest: empty result and linear length cache.
Init ==
    /\ ast \in Trees
    /\ commentCollectionMap \in CommentCollectionMaps(ast)
    /\ parentMap \in ParentMaps(ast)
    /\ linearLengthMap = <<>>
    /\ result = <<>>
    /\ visitOrder = DepthFirst(ast, <<>>)
    /\ cursor = 1
    /\ status = "running"
    /\ fault = NoFault
    /\ setCount = [q \in PathsOf(ast, <<>>) |-> 0]

\* The traversal calls visitNode on the next node and it completes.
visitNode ==
    /\ status = "running"
    /\ cursor <= Len(visitOrder)
    /\ LET node == visitOrder[cursor]
       IN  /\ ~visitNodeThrows(node, parentMap)
           /\ \E measured \in Measurements(measuresNode(node), Kind(node)),
                 headMeasured \in Measurements(measuresHead(node, parentMap),
                                               Kind(node)) :
                /\ result' = setIsMultilineWithCommentCheck(node,
                                 commentCollectionMap, result,
                                 isMultilineOf(node, result, parentMap,
                                     linearLengthMap, measured, headMeasured))
                /\ linearLengthMap' = linearLengthMapAfter(node, parentMap,
                                          linearLengthMap, measured, headMeasured)
           /\ setCount' = [setCount EXCEPT ![node] = @ + 1]
    /\ cursor' = cursor + 1
    /\ UNCHANGED <<ast, commentCollectionMap, parentMap, visitOrder, status,
                   fault>>

\* The traversal calls visitNode on the next node and it throws the
\* InvariantError, which ends the traversal.
visitNodeThrowsInvariantError ==
    /\ status = "running"
    /\ cursor <= Len(visitOrder)
    /\ LET node == visitOrder[cursor]
       IN  /\ visitNodeThrows(node, parentMap)
           /\ \E measured \in Measurements(measuresNode(node), Kind(node)) :
                linearLengthMap' = linearLengthMapAfter(node, parentMap,
                                       linearLengthMap, measured, measured)
           /\ fault' = InvariantErrorDetails(node, parentMap)
    /\ status' = "thrown"
    /\ UNCHANGED <<ast, commentCollectionMap, parentMap, result, visitOrder,
                   cursor, setCount>>

\* Every node has been visited: the traversal returns state.result.
traverseReturns ==
    /\ status = "running"
    /\ cursor > Len(visitOrder)
    /\ status' = "returned"
    /\ UNCHANGED <<ast, commentCollectionMap, parentMap, linearLengthMap,
                   result, visitOrder, cursor, fault, setCount>>

Next ==
    \/ visitNode
    \/ visitNodeThrowsInvariantError
    \/ traverseReturns

Spec == Init /\ [][Next]_vars

----------------------------------------------------------------------------
(* Vocabulary of the properties.  A property about the flag of a node is   *)
(* stated of the node visited last: its children's flags are in result and *)
(* the lengths measured for it are in linearLengthMap.                     *)

HasVisited == cursor > 1

lastVisited == visitOrder[cursor - 1]

\* The comment index has an entry for n that reports a line break.
CommentBreaksBefore(n) ==
    /\ n \in DOMAIN commentCollectionMap
    /\ commentCollectionMap[n].prefixedCommentsContainsNewline = TRUE

\* Some node of the set has a true flag in the map.
AnyFlag(S) == \E c \in S : c \in DOMAIN result /\ result[c] = TRUE

ChildrenIn(n, roleSet) ==
    { Append(n, i) : i \in { j \in 1..Len(Node(n).roles) :
                             Node(n).roles[j] \in roleSet } }

----------------------------------------------------------------------------
\* C1: a node whose span has a comment entry reporting a line break is
\* committed as true whatever its rule derives; a rule-derived true is
\* committed as true; and overriding the committed value again changes nothing.
C1_CommentOverride ==
    HasVisited =>
        LET n == lastVisited
            derived == isMultilineOf(n, result, parentMap, linearLengthMap, 0, 0)
        IN  /\ n \in DOMAIN result
            /\ CommentBreaksBefore(n) => result[n] = TRUE
            /\ derived => result[n] = TRUE
            /\ (~CommentBreaksBefore(n) /\ ~derived) => result[n] = FALSE
            /\ (IF CommentBreaksBefore(n) THEN TRUE ELSE result[n]) = result[n]

\* A node whose rule derives false is committed true because of its comment.
C1_Witness ==
    /\ HasVisited
    /\ CommentBreaksBefore(lastVisited)
    /\ ~isMultilineOf(lastVisited, result, parentMap, linearLengthMap, 0, 0)
    /\ result[lastVisited] = TRUE

----------------------------------------------------------------------------
\* C2: every entry of the map is written exactly once, when the entries of
\* all of the node's children and further descendants exist, and no step
\* changes or removes an entry that exists.
C2_WrittenOnceAfterChildren ==
    /\ [](\A n \in Nodes :
            setCount[n] = (IF n \in DOMAIN result THEN 1 ELSE 0))
    /\ [][ /\ \A n \in DOMAIN result :
                n \in DOMAIN result' /\ result'[n] = result[n]
           /\ \A n \in DOMAIN result' \ DOMAIN result :
                \A d \in Nodes :
                    IsProperDescendant(d, n) => d \in DOMAIN result ]_vars

\* A node with grandchildren has its entry, written once.
C2_Witness ==
    \E n \in DOMAIN result :
        /\ setCount[n] = 1
        /\ \E d \in Nodes : IsProperDescendant(d, n) /\ Len(d) > Len(n) + 1

\* C3: the map the traversal returns has exactly one entry for every node of
\* the tree and no entry for anything else.
C3_ReturnedMapIsTotal ==
    status = "returned" =>
        /\ DOMAIN result = Nodes
        /\ \A n \in Nodes : setCount[n] = 1 /\ result[n] \in BOOLEAN

\* The traversal has returned the map of a tree of several nodes.
C3_Witness ==
    /\ status = "returned"
    /\ Cardinality(Nodes) > 3
    /\ DOMAIN result = Nodes

----------------------------------------------------------------------------
(* Invocations.                                                            *)

Arguments(n) == ChildrenIn(n, {"content"})

\* The parent index names a RecursivePrimaryExpression as n's parent.
HasRecursivePrimaryParent(n) ==
    /\ n \in DOMAIN parentMap
    /\ Kind(parentMap[n]) = "RecursivePrimaryExpression"

HeadOfParent(n) == Append(parentMap[n], 1)

\* linearLength(invocation) + linearLength(parent.head), once measured.
CombinedLength(n) == linearLengthMap[n] + linearLengthMap[HeadOfParent(n)]

\* n is a call of several arguments, under a recursive primary, measured
\* longer than the threshold, with no comment override.
IsLongCall(n) ==
    /\ Kind(n) = "InvokeExpression"
    /\ Cardinality(Arguments(n)) > 1
    /\ HasRecursivePrimaryParent(n)
    /\ ~CommentBreaksBefore(n)
    /\ CombinedLength(n) > 30

\* The one case in which a long call may stay on one line: a sole chained
\* access, headed by an unmarked identifier of the exclusion set.
IsLiteralConstructorCall(n) ==
    LET parent == parentMap[n]
        head == HeadOfParent(n)
    IN  /\ Cardinality(ChildrenIn(parent, {"recursiveExpressions"})) = 1
        /\ Kind(head) = "IdentifierExpression"
        /\ ChildrenIn(head, {"maybeInclusiveConstant"}) = {}
        /\ \E i \in ChildrenIn(head, {"identifier"}) :
               Node(i).literal \in
                   { <<"#", "d", "a", "t", "e", "t", "i", "m", "e">>,
                     <<"#", "d", "a", "t", "e", "t", "i", "m", "e",
                       "z", "o", "n", "e">>,
                     <<"#", "d", "u", "r", "a", "t", "i", "o", "n">>,
                     <<"#", "t", "i", "m", "e">> }

\* C4: a long call is single-line only if it is a literal constructor call;
\* every other long call is multiline.
C4_LongCallIsMultilineUnlessExcluded ==
    (HasVisited /\ IsLongCall(lastVisited)) =>
        result[lastVisited] = ~IsLiteralConstructorCall(lastVisited)

\* What the code does for a long call: it is multiline exactly when its
\* parent has a sole chained access and an identifier head that is marked
\* or not in the exclusion set.
LongCallAsClassified ==
    (HasVisited /\ IsLongCall(lastVisited)) =>
        LET n == lastVisited
            head == HeadOfParent(n)
        IN  result[n] =
                (/\ Cardinality(ChildrenIn(parentMap[n],
                                           {"recursiveExpressions"})) = 1
                 /\ Kind(head) = "IdentifierExpression"
                 /\ ~IsLiteralConstructorCall(n))

\* The parent index has no entry for n, or names a node of another kind.
HasNoRecursivePrimaryParent(n) ==
    \/ n \notin DOMAIN parentMap
    \/ /\ n \in DOMAIN parentMap
       /\ Kind(parentMap[n]) # "RecursivePrimaryExpression"

IsMisplacedCall(n) ==
    /\ Kind(n) = "InvokeExpression"
    /\ Cardinality(Arguments(n)) > 1
    /\ HasNoRecursivePrimaryParent(n)

\* C5: the visit of a call of several arguments whose parent is absent or no
\* recursive primary ends the pass with a fault naming the call and the
\* parent found, whatever the lengths; the map is left as it was, holding an
\* entry for exactly the nodes visited before; nothing happens afterwards.
C5_MisplacedCallAborts ==
    /\ [](status = "thrown" =>
            /\ cursor <= Len(visitOrder)
            /\ IsMisplacedCall(visitOrder[cursor])
            /\ fault.raised
            /\ fault.node = <<visitOrder[cursor]>>
            /\ fault.maybeParent =
                   (IF visitOrder[cursor] \in DOMAIN parentMap
                    THEN <<parentMap[visitOrder[cursor]]>> ELSE <<>>)
            /\ DOMAIN result = { visitOrder[i] : i \in 1..(cursor - 1) })
    /\ [][ /\ status # "thrown"
           /\ (cursor <= Len(visitOrder)
               /\ IsMisplacedCall(visitOrder[cursor]))
              => (status' = "thrown" /\ result' = result
                  /\ cursor' = cursor) ]_vars

\* The pass has aborted on a call whose recorded parent is of another kind,
\* after it had written entries.
C5_Witness ==
    /\ status = "thrown"
    /\ fault.maybeParent # <<>>
    /\ DOMAIN result # {}

----------------------------------------------------------------------------
(* Binary chains.                                                          *)

\* The terminal operands of the flattened chain: an operand that is itself
\* a binary chain, first or later, counts as its own operands.
RECURSIVE FlattenedOperandCount(_)
FlattenedOperandCount(n) ==
    IF Kind(n) \in {"ArithmeticExpression", "EqualityExpression",
                    "LogicalExpression", "RelationalExpression"}
    THEN LET operands == Field(n, "first") \o HelperNodes(Field(n, "rest"))
             sum[i \in 0..Len(operands)] ==
                 IF i = 0 THEN 0
                 ELSE sum[i - 1] + FlattenedOperandCount(operands[i])
         IN  sum[Len(operands)]
    ELSE 1

IsBinaryChain(n) ==
    Kind(n) \in {"ArithmeticExpression", "EqualityExpression",
                 "LogicalExpression", "RelationalExpression"}

\* C6: a binary chain of more than 3 flattened terminal operands is
\* multiline, whatever its length and its operands' flags.
C6_LongChainIsMultiline ==
    (HasVisited /\ IsBinaryChain(lastVisited)
     /\ FlattenedOperandCount(lastVisited) > 3)
        => result[lastVisited] = TRUE

\* What the code counts: the first operand flattened, every later operand
\* as one.
CountedOperands(n) ==
    FlattenedOperandCount(Field(n, "first")[1]) + Len(Field(n, "rest"))

ChainOfCountedOperandsIsMultiline ==
    (HasVisited /\ IsBinaryChain(lastVisited)
     /\ CountedOperands(lastVisited) > 3)
        => result[lastVisited] = TRUE

----------------------------------------------------------------------------
(* Lists and records.                                                      *)

IsListOrRecord(n) ==
    Kind(n) \in {"ListExpression", "ListLiteral", "RecordExpression",
                 "RecordLiteral"}

\* The element held by a content item.
ElementOf(item) == Append(item, 1)

\* C7: without a comment override, a list or record is multiline exactly
\* when it has several content items, or a wrapper or content item is
\* multiline, or the element of its content item is a list or record.
C7_ListOrRecordFlag ==
    (HasVisited /\ IsListOrRecord(lastVisited)
     /\ ~CommentBreaksBefore(lastVisited)) =>
        LET n == lastVisited
            items == ChildrenIn(n, {"content"})
        IN  result[n] =
                (\/ Cardinality(items) > 1
                 \/ AnyFlag(ChildrenIn(n, {"openWrapperConstant",
                                           "closeWrapperConstant", "content"}))
                 \/ \E item \in items : IsListOrRecord(ElementOf(item)))

\* A list whose only item is a nested list that is not multiline itself.
C7_Witness ==
    /\ HasVisited
    /\ IsListOrRecord(lastVisited)
    /\ ~CommentBreaksBefore(lastVisited)
    /\ \E item \in ChildrenIn(lastVisited, {"content"}) :
          /\ ChildrenIn(lastVisited, {"content"}) = {item}
          /\ IsListOrRecord(ElementOf(item))
          /\ result[ElementOf(item)] = FALSE
          /\ result[item] = FALSE
    /\ result[lastVisited] = TRUE

----------------------------------------------------------------------------
(* Text literals.                                                          *)

IsTextLiteral(n) ==
    Kind(n) = "LiteralExpression" /\ Node(n).literalKind = "Str"

containsLineBreak(text) ==
    \E i \in DOMAIN text : text[i] = "\n" \/ text[i] = "\r"

\* C8 as stated: the flag of a text literal is containsLineBreak(rawText).
C8_TextLiteralFlagIsLineBreak ==
    (HasVisited /\ IsTextLiteral(lastVisited)) =>
        result[lastVisited] = containsLineBreak(Node(lastVisited).literal)

\* C8 amended: the flag of a text literal with no comment override is
\* containsLineBreak(rawText); with the override it is true.
C8_TextLiteralFlag ==
    (HasVisited /\ IsTextLiteral(lastVisited)) =>
        result[lastVisited] =
            (\/ containsLineBreak(Node(lastVisited).literal)
             \/ CommentBreaksBefore(lastVisited))

\* Text literals with and without a line break in the second code unit.
C8_Witness ==
    /\ HasVisited
    /\ IsTextLiteral(lastVisited)
    /\ ~CommentBreaksBefore(lastVisited)
    /\ Len(Node(lastVisited).literal) = 2
    /\ Node(lastVisited).literal[1] = "a"
    /\ Node(lastVisited).literal[2] = "\r"
    /\ result[lastVisited] = TRUE

----------------------------------------------------------------------------
(* Field specification lists.                                              *)

\* C9: without a comment override, a field specification list is multiline
\* exactly when it has several fields, or one field and an open record
\* marker; a record type without its own override has the flag of its list.
C9_FieldSpecificationListFlag ==
    HasVisited =>
        LET n == lastVisited
            fields == ChildrenIn(n, {"content"})
            marker == ChildrenIn(n, {"maybeOpenRecordMarkerConstant"})
        IN  /\ (Kind(n) = "FieldSpecificationList" /\ ~CommentBreaksBefore(n))
               => result[n] = (\/ Cardinality(fields) > 1
                               \/ Cardinality(fields) = 1 /\ marker # {})
            /\ (Kind(n) = "RecordType" /\ ~CommentBreaksBefore(n))
               => \A list \in ChildrenIn(n, {"fields"}) :
                      result[n] = result[list]

\* A list of one multiline field and no marker is not multiline.
C9_Witness ==
    /\ HasVisited
    /\ Kind(lastVisited) = "FieldSpecificationList"
    /\ ~CommentBreaksBefore(lastVisited)
    /\ Cardinality(ChildrenIn(lastVisited, {"content"})) = 1
    /\ ChildrenIn(lastVisited, {"maybeOpenRecordMarkerConstant"}) = {}
    /\ AnyFlag(ChildrenIn(lastVisited, {"content"}))
    /\ result[lastVisited] = FALSE

----------------------------------------------------------------------------
\* C10: without a comment override, a call of at most one argument, or of
\* several arguments measured at the threshold or below, is multiline
\* exactly when a wrapper or an argument item is; so a call whose single
\* argument is a conditional expression is multiline.
C10_ShortCallFlag ==
    (HasVisited /\ Kind(lastVisited) = "InvokeExpression"
     /\ ~CommentBreaksBefore(lastVisited)) =>
        LET n == lastVisited
            args == Arguments(n)
        IN  /\ (\/ Cardinality(args) <= 1
                \/ /\ Cardinality(args) > 1
                   /\ HasRecursivePrimaryParent(n)
                   /\ CombinedLength(n) <= 30)
               => result[n] =
                      AnyFlag(ChildrenIn(n, {"openWrapperConstant",
                                             "closeWrapperConstant", "content"}))
            /\ \A arg \in args :
                  (args = {arg} /\ Kind(ElementOf(arg)) = "IfExpression")
                      => result[n] = TRUE

\* A call of several arguments measured at exactly the threshold is
\* multiline because an argument is.
C10_Witness ==
    /\ HasVisited
    /\ Kind(lastVisited) = "InvokeExpression"
    /\ ~CommentBreaksBefore(lastVisited)
    /\ Cardinality(Arguments(lastVisited)) > 1
    /\ HasRecursivePrimaryParent(lastVisited)
    /\ CombinedLength(lastVisited) = 30
    /\ AnyFlag(Arguments(lastVisited))
    /\ result[lastVisited] = TRUE

====
